---- MODULE Spec2Model ----
(***************************************************************************)
(* OPTICS clustering (src/src/optics.rs): the Optics object with its       *)
(* fields eps, min_samples, ordered, reachability and neighborhoods, the   *)
(* fit call (neighborhood construction, the ordered traversal of process   *)
(* and update, extraction at the configured radius) and                    *)
(* extract_clusters_and_outliers at a caller-chosen threshold.             *)
(*                                                                         *)
(* Points are one-dimensional with the Euclidean metric, so a distance is  *)
(* |x - y|.  Coordinates are even integers and the build radius is odd:    *)
(* no distance equals the build radius, and the answer of the spatial      *)
(* index to a radius query does not depend on how it treats its boundary.  *)
(* Arrays indexed by point keep the source's 0-based indices and are       *)
(* functions on 0..n-1; vectors whose order matters are sequences.         *)
(***************************************************************************)
EXTENDS Integers, Sequences, FiniteSets, TLC

VARIABLES
    eps,            \* Optics.eps, the build radius
    min_samples,    \* Optics.min_samples
    ordered,        \* Optics.ordered
    reachability,   \* Optics.reachability
    neighborhoods,  \* Optics.neighborhoods
    input,          \* the point set of the current or most recent fit call
    tree,           \* the order in which the spatial index of that call lists points
    visited,        \* fit's local `visited`
    to_visit,       \* process's candidate stack
    seeds,          \* process's seed buffer
    idx,            \* position of fit's loop over the neighborhoods
    pc,             \* "idle" | "outer" | "stack" | "seeds"
    result,         \* value returned by the last completed call
    op,             \* last completed call: "new" | "fit" | "extract"
    exEps,          \* threshold of the last extract call
    lastFit,        \* value returned by the most recent fit call
    nfits,          \* number of fit calls so far
    refit,          \* the most recent fit call repeated the input of the one before
    cand,           \* per point, the smallest candidate update computed in this fit
    starts,         \* the start indices fit's loop handed to process, in order
    updated,        \* per point, how often update was called with it as `id` in this fit
    expansion,      \* per point, the number of the process call that visited it (0: none)
    prev            \* the fields and the last fit result as the most recent fit call
                    \* that runs step by step found them

vars == <<eps, min_samples, ordered, reachability, neighborhoods, input, tree,
          visited, to_visit, seeds, idx, pc, result, op, exEps, lastFit, nfits,
          refit, cand, starts, updated, expansion, prev>>

-----------------------------------------------------------------------------
(* Bounds of the model. *)

\* largest number of points of a fit call
MaxN == 3
\* coordinates are 0, 2, ..., 2 * MaxCoord
MaxCoord == 3
\* build radii are 1, 3, ..., 2 * MaxEps + 1
MaxEps == 2
\* min_samples ranges over 1..MaxMinSamples
MaxMinSamples == 3
\* fit calls on one object in SpecSeq
MaxFits == 2
\* largest number of points of a fit call in SpecSeq
SeqMaxN == 2
\* coordinates in SpecSeq are 0, 2, ..., 2 * SeqMaxCoord
SeqMaxCoord == 1
\* largest number of points of a fit call in SpecRefit
RefitMaxN == 3
\* coordinates in SpecRefit are 0, 2, ..., 2 * RefitMaxCoord
RefitMaxCoord == 2
\* largest number of points of the fit call in SpecSeeds
SeedsMaxN == 4
\* coordinates in SpecSeeds are 0, 2, ..., 2 * SeedsMaxCoord
SeedsMaxCoord == 3
\* the build radius in SpecSeeds is 2 * SeedsEps + 1
SeedsEps == 2
\* min_samples ranges over 1..SeedsMaxMinSamples in SpecSeeds
SeedsMaxMinSamples == 4
\* largest number of points of the fit call in SpecLive
LiveMaxN == 3
\* coordinates in SpecLive are 0, 2, ..., 2 * LiveMaxCoord
LiveMaxCoord == 2

-----------------------------------------------------------------------------
(* Floating-point values: the reachable values are NaN and the integers    *)
(* >= 0 (distances and radii on the integer lattice).                      *)

\* A::nan(), the value reachability starts with
NaN == -1

\* FloatCore::is_normal: neither zero, subnormal, infinite nor NaN
is_normal(x) == x # NaN /\ x # 0

\* a < b, false when either is NaN
Lt(a, b) == a # NaN /\ b # NaN /\ a < b

\* a > b, false when either is NaN
Gt(a, b) == a # NaN /\ b # NaN /\ a > b

\* a <= b, false when either is NaN
Le(a, b) == a # NaN /\ b # NaN /\ a <= b

-----------------------------------------------------------------------------
(* Inputs. *)

\* input.nrows()
NRows(inp) == Cardinality(DOMAIN inp)

\* the point sets of at most n points with coordinates 0, 2, ..., 2 * c
PointSets(n, c) == UNION {[0..(k - 1) -> {2 * x : x \in 0..c}] : k \in 0..n}

\* the orders in which the index over n points lists them: the index fixes one
\* order per point set, which the source leaves open; the model covers row
\* order and reverse row order, so a tie between two neighbors falls both ways
TreeOrders(n) == {[k \in 1..n |-> k - 1], [k \in 1..n |-> n - k]}

\* the build radii
EpsSet == {2 * k + 1 : k \in 0..MaxEps}

\* the thresholds extract_clusters_and_outliers is called with
Thresholds == 0..(2 * MaxEps + 2)

-----------------------------------------------------------------------------
(* The metric and the spatial index. *)

\* Euclidean distance between rows o and p
Distance(inp, o, p) == IF inp[o] >= inp[p] THEN inp[o] - inp[p] ELSE inp[p] - inp[o]

\* db.query_radius(&p, eps): the points within radius of p, as the index lists them
QueryRadius(inp, tr, p, radius) ==
    SelectSeq(tr, LAMBDA q : Distance(inp, p, q) <= radius)

\* db.query(&p, k).1[k - 1]: the distance of the k-th nearest point to p, p included
QueryKthDistance(inp, p, k) ==
    CHOOSE d \in {Distance(inp, p, q) : q \in DOMAIN inp} :
        /\ Cardinality({q \in DOMAIN inp : Distance(inp, p, q) <= d}) >= k
        /\ \A d2 \in {Distance(inp, p, q) : q \in DOMAIN inp} :
             Cardinality({q \in DOMAIN inp : Distance(inp, p, q) <= d2}) >= k => d <= d2

\* NeighborhoodOf with the core distance taken to the min_samples-th nearest point
\* (to the farthest point when the input has fewer than min_samples points)
NeighborhoodOfMinSamples(inp, tr, p, radius) ==
    LET neighbors == QueryRadius(inp, tr, p, radius)
        k == IF min_samples <= NRows(inp) THEN min_samples ELSE NRows(inp)
    IN  [neighbors |-> neighbors,
         core_distance |-> IF Len(neighbors) > 1 THEN QueryKthDistance(inp, p, k) ELSE 0]

\* the Neighborhood of point p
NeighborhoodOf(inp, tr, p, radius) ==
    LET neighbors == QueryRadius(inp, tr, p, radius)
    IN  [neighbors |-> neighbors,
         core_distance |-> IF Len(neighbors) > 1 THEN QueryKthDistance(inp, p, 2) ELSE 0]

\* build_neighborhoods: one Neighborhood per row, in row order
build_neighborhoods(inp, tr, radius) ==
    [p \in DOMAIN inp |-> NeighborhoodOf(inp, tr, p, radius)]

\* reachability_distance giving half the distance, whatever the core distance
ReachabilityDistanceHalved(o, p, inp, nbhd) == Distance(inp, o, p) \div 2

\* reachability_distance(o, p, input, neighbors, metric), neighbors being p's
reachability_distance(o, p, inp, nbhd) ==
    LET dist == Distance(inp, o, p)
    IN  IF Gt(dist, nbhd.core_distance) THEN dist ELSE nbhd.core_distance

-----------------------------------------------------------------------------
(* update: the reachability of the unvisited neighbors of a core point.    *)

\* line 244: the neighbor has no reachability yet
IsUndefined(r) == ~is_normal(r)

\* line 247: the condition under which a defined reachability is overwritten
Overwrites(r, reachdist) == Lt(r, reachdist)

\* insertion of x into a slice sorted by `reachability[a] > reachability[b]`:
\* x moves left past every element it is less than in the reversed order
RECURSIVE InsertTail(_, _, _)
InsertTail(s, x, rch) ==
    IF s = <<>> THEN <<x>>
    ELSE LET last == s[Len(s)]
         IN  IF Gt(rch[x], rch[last])
             THEN Append(InsertTail(SubSeq(s, 1, Len(s) - 1), x, rch), last)
             ELSE Append(s, x)

\* the sort of a slice of at most 20 elements: insertion, left to right
RECURSIVE insertion_sort(_, _)
insertion_sort(s, rch) ==
    IF s = <<>> THEN <<>>
    ELSE InsertTail(insertion_sort(SubSeq(s, 1, Len(s) - 1), rch), s[Len(s)], rch)

\* t with x put in at position p
InsertAt(t, p, x) == SubSeq(t, 1, p - 1) \o <<x>> \o SubSeq(t, p, Len(t))

\* every order of the entries of s: s[1] is put into an order of the others, no
\* later than the first entry equal to it
RECURSIVE Arrangements(_)
Arrangements(s) ==
    IF s = <<>> THEN {<<>>}
    ELSE {InsertAt(tp[1], tp[2], s[1]) :
             tp \in {q \in Arrangements(Tail(s)) \X (1..Len(s)) :
                        \A i \in 1..(q[2] - 1) : q[1][i] # s[1]}}

\* every order of the entries of s in which no entry has a smaller reachability
\* than the entry after it: the entries of the largest reachability in any
\* order, then the others
RECURSIVE SortedArrangements(_, _)
SortedArrangements(s, rch) ==
    IF s = <<>> THEN {<<>>}
    ELSE LET top == CHOOSE x \in {s[k] : k \in 1..Len(s)} :
                        \A k \in 1..Len(s) : ~Lt(rch[x], rch[s[k]])
             first == SelectSeq(s, LAMBDA x : rch[x] = rch[top])
             rest == SelectSeq(s, LAMBDA x : rch[x] # rch[top])
         IN  {a \o b : a \in Arrangements(first), b \in SortedArrangements(rest, rch)}

\* line 254: partial_cmp(..).unwrap() panics when one of the two reachabilities
\* is NaN; every entry of a slice of two or more entries is compared
SortPanics(s, rch) == Len(s) >= 2 /\ \E k \in 1..Len(s) : rch[s[k]] = NaN

\* sort_unstable_by leaving the buffer in the order of the pushes
LeftUnsorted(s, rch) == {[seeds |-> s, panicked |-> FALSE]}

\* the first position of s whose entry has reachability NaN
FirstNaN(s, rch) ==
    CHOOSE k \in 1..Len(s) :
        rch[s[k]] = NaN /\ \A i \in 1..(k - 1) : rch[s[i]] # NaN

\* the buffer the insertion sort leaves when it unwinds: the entries before the
\* first NaN are sorted, and the first comparison of the next insertion panics
\* before anything is moved
UnwoundInsertion(s, rch) ==
    insertion_sort(SubSeq(s, 1, FirstNaN(s, rch) - 1), rch)
        \o SubSeq(s, FirstNaN(s, rch), Len(s))

\* seeds.sort_unstable_by(reversed partial_cmp of the reachabilities): the buffers
\* the call can leave. A slice of at most 20 entries is sorted by insertion,
\* which keeps entries of equal reachability in the order of the pushes, and a
\* comparison with NaN unwinds from the insertion it is in. A longer slice is
\* sorted by the library's networks and partitioning: the order it leaves among
\* entries of equal reachability, and the order it has reached when a comparison
\* with NaN panics, are not specified, so any sorted order, and on a panic any
\* order, is an outcome
sort_unstable_by(s, rch) ==
    IF SortPanics(s, rch)
    THEN IF Len(s) <= 20 THEN {[seeds |-> UnwoundInsertion(s, rch), panicked |-> TRUE]}
         ELSE {[seeds |-> t, panicked |-> TRUE] : t \in Arrangements(s)}
    ELSE IF Len(s) <= 20 THEN {[seeds |-> insertion_sort(s, rch), panicked |-> FALSE]}
    ELSE {[seeds |-> t, panicked |-> FALSE] : t \in SortedArrangements(s, rch)}

\* UpdateScan without the test of visited[o]
RECURSIVE UpdateScanNoSkip(_, _, _, _, _, _, _)
UpdateScanNoSkip(k, id, nbhd, inp, vis, sds, rch) ==
    IF k > Len(nbhd.neighbors) THEN [seeds |-> sds, reachability |-> rch]
    ELSE LET o == nbhd.neighbors[k]
             reachdist == reachability_distance(o, id, inp, nbhd)
         IN  IF IsUndefined(rch[o])
             THEN UpdateScanNoSkip(k + 1, id, nbhd, inp, vis, Append(sds, o),
                                   [rch EXCEPT ![o] = reachdist])
             ELSE IF Overwrites(rch[o], reachdist)
             THEN UpdateScanNoSkip(k + 1, id, nbhd, inp, vis, sds,
                                   [rch EXCEPT ![o] = reachdist])
             ELSE UpdateScanNoSkip(k + 1, id, nbhd, inp, vis, sds, rch)

\* the loop of update over neighborhood.neighbors, from position k on
RECURSIVE UpdateScan(_, _, _, _, _, _, _)
UpdateScan(k, id, nbhd, inp, vis, sds, rch) ==
    IF k > Len(nbhd.neighbors) THEN [seeds |-> sds, reachability |-> rch]
    ELSE LET o == nbhd.neighbors[k]
             reachdist == reachability_distance(o, id, inp, nbhd)
         IN  IF vis[o] THEN UpdateScan(k + 1, id, nbhd, inp, vis, sds, rch)
             ELSE IF IsUndefined(rch[o])
             THEN UpdateScan(k + 1, id, nbhd, inp, vis, Append(sds, o),
                             [rch EXCEPT ![o] = reachdist])
             ELSE IF Overwrites(rch[o], reachdist)
             THEN UpdateScan(k + 1, id, nbhd, inp, vis, sds,
                             [rch EXCEPT ![o] = reachdist])
             ELSE UpdateScan(k + 1, id, nbhd, inp, vis, sds, rch)

\* update(id, neighborhood, input, visited, metric, seeds, reachability): the scan,
\* then the sort of the seeds by the reachabilities the scan left (r is the one
\* result of the scan); the outcomes of the call, `panicked` when the sort
\* panicked and the call unwound
update(id, nbhd, inp, vis, sds, rch) ==
    UNION {{[seeds |-> st.seeds, reachability |-> r.reachability,
             panicked |-> st.panicked] :
                st \in sort_unstable_by(r.seeds, r.reachability)} :
              r \in {UpdateScan(1, id, nbhd, inp, vis, sds, rch)}}

\* the candidates update computes for the unvisited neighbors of id, folded into
\* the smallest candidate seen per point (a record of the run, not program state)
CandAfter(c, id, nbhd, inp, vis) ==
    [o \in DOMAIN c |->
        IF ~vis[o] /\ \E k \in 1..Len(nbhd.neighbors) : nbhd.neighbors[k] = o
        THEN LET reachdist == reachability_distance(o, id, inp, nbhd)
             IN  IF c[o] = NaN \/ reachdist < c[o] THEN reachdist ELSE c[o]
        ELSE c[o]]

-----------------------------------------------------------------------------
(* extract_clusters_and_outliers.                                          *)

\* HashMap::new() and vec![]
EmptyResult == [clusters |-> <<>>, outliers |-> <<>>, panicked |-> FALSE]

\* the call panicked: it returned nothing
PanicResult == [clusters |-> <<>>, outliers |-> <<>>, panicked |-> TRUE]

\* clusters.len()
MapLen(m) == Cardinality(DOMAIN m)

\* line 90: the reachability is defined and within the threshold
Reached(r, e) == is_normal(r) /\ Le(r, e)

\* IsCoreAt with the comparison of the core distance turned around
IsCoreAtFlipped(n, ms, e) == Len(n.neighbors) >= ms /\ Le(e, n.core_distance)

\* IsCoreAt asking for more than min_samples neighbors
IsCoreAtStrict(n, ms, e) == Len(n.neighbors) > ms /\ Le(n.core_distance, e)

\* line 101: the point is a core point at the threshold
IsCoreAt(n, ms, e) == Len(n.neighbors) >= ms /\ Le(n.core_distance, e)

\* NewKey counting cluster ids from one
NewKeyFromOne(clusters) == MapLen(clusters) + 1

\* line 102: the key a new cluster is entered under
NewKey(clusters) == MapLen(clusters)

\* LastKey joining the cluster opened first
LastKeyFirst(clusters) == 0

\* line 94: the key of the cluster a reached point joins
LastKey(clusters) == MapLen(clusters) - 1

\* EntryOrInsert entering an empty member list
EntryOrInsertEmpty(clusters, key, id) ==
    IF key \in DOMAIN clusters THEN clusters
    ELSE [x \in DOMAIN clusters \cup {key} |-> IF x = key THEN <<>> ELSE clusters[x]]

\* clusters.entry(key).or_insert_with(|| vec![id])
EntryOrInsert(clusters, key, id) ==
    IF key \in DOMAIN clusters THEN clusters
    ELSE [x \in DOMAIN clusters \cup {key} |-> IF x = key THEN <<id>> ELSE clusters[x]]

\* one iteration of the loop over self.ordered; self.reachability[id] (line 90)
\* and, in the else branch only, self.neighborhoods[id] (line 100) panic when id
\* is out of bounds
Classify(acc, id, rch, nbh, ms, e) ==
    IF id \notin DOMAIN rch
    THEN [acc EXCEPT !.panicked = TRUE]
    ELSE IF Reached(rch[id], e)
    THEN IF DOMAIN acc.clusters = {}
         THEN [acc EXCEPT !.outliers = Append(@, id)]
         ELSE IF LastKey(acc.clusters) \in DOMAIN acc.clusters
              THEN [acc EXCEPT !.clusters[LastKey(acc.clusters)] = Append(@, id)]
              ELSE [acc EXCEPT !.panicked = TRUE]
    ELSE IF id \notin DOMAIN nbh
         THEN [acc EXCEPT !.panicked = TRUE]
         ELSE IF IsCoreAt(nbh[id], ms, e)
              THEN [acc EXCEPT !.clusters = EntryOrInsert(@, NewKey(@), id)]
              ELSE [acc EXCEPT !.outliers = Append(@, id)]

\* the loop over self.ordered from position k on; a panic ends it
RECURSIVE ExtractScan(_, _, _, _, _, _, _)
ExtractScan(k, ord, rch, nbh, ms, e, acc) ==
    IF k > Len(ord) \/ acc.panicked THEN acc
    ELSE ExtractScan(k + 1, ord, rch, nbh, ms, e, Classify(acc, ord[k], rch, nbh, ms, e))

\* self.extract_clusters_and_outliers(eps)
extract_clusters_and_outliers(ord, rch, nbh, ms, e) ==
    ExtractScan(1, ord, rch, nbh, ms, e, EmptyResult)

-----------------------------------------------------------------------------
(* process and fit as functions of the traversal state                     *)
(* t = [visited, ordered, reachability, seeds, panicked]; each gives the   *)
(* set of the states the code can end in.                                  *)

\* VisitOp without the test of visited[cur]
VisitOpNoSkip(t, cur, nbh, inp, ms) ==
    LET v == [t.visited EXCEPT ![cur] = TRUE]
        o == Append(t.ordered, cur)
    IN  IF Len(nbh[cur].neighbors) < ms
        THEN {[t EXCEPT !.visited = v, !.ordered = o]}
        ELSE {[visited |-> v, ordered |-> o, reachability |-> u.reachability,
               seeds |-> u.seeds, panicked |-> u.panicked] :
                  u \in update(cur, nbh[cur], inp, v, t.seeds, t.reachability)}

\* the body of both loops of process for a popped index cur, t.seeds being the
\* seed buffer it works on: skip a visited index, else mark and append it,
\* and update from it if it is a core point
VisitOp(t, cur, nbh, inp, ms) ==
    IF t.visited[cur] THEN {t}
    ELSE LET v == [t.visited EXCEPT ![cur] = TRUE]
             o == Append(t.ordered, cur)
         IN  IF Len(nbh[cur].neighbors) < ms
             THEN {[t EXCEPT !.visited = v, !.ordered = o]}
             ELSE {[visited |-> v, ordered |-> o, reachability |-> u.reachability,
                    seeds |-> u.seeds, panicked |-> u.panicked] :
                       u \in update(cur, nbh[cur], inp, v, t.seeds, t.reachability)}

\* lines 203-222: the seed buffer is drained; a panic ends the loop
RECURSIVE SeedLoop(_, _, _, _)
SeedLoop(t, nbh, inp, ms) ==
    IF t.seeds = <<>> \/ t.panicked THEN {t}
    ELSE UNION {SeedLoop(t2, nbh, inp, ms) :
                   t2 \in VisitOp([t EXCEPT !.seeds = SubSeq(@, 1, Len(@) - 1)],
                                  t.seeds[Len(t.seeds)], nbh, inp, ms)}

\* process(idx, ...): the candidate stack holds idx alone and nothing is pushed
\* on it, so its loop pops idx and ends
process(i, t, nbh, inp, ms) ==
    UNION {SeedLoop(t2, nbh, inp, ms) :
              t2 \in VisitOp([t EXCEPT !.seeds = <<>>], i, nbh, inp, ms)}

\* FreshTraversal keeping the visiting order the object holds
FreshTraversalKeepsOrder(inp) ==
    [visited |-> [p \in DOMAIN inp |-> FALSE], ordered |-> ordered,
     reachability |-> [p \in DOMAIN inp |-> NaN], seeds |-> <<>>, panicked |-> FALSE]

\* lines 146-148: visited, self.ordered and self.reachability as fit resets them
FreshTraversal(inp) ==
    [visited |-> [p \in DOMAIN inp |-> FALSE], ordered |-> <<>>,
     reachability |-> [p \in DOMAIN inp |-> NaN], seeds |-> <<>>, panicked |-> FALSE]

\* lines 149-163: fit's loop over the neighborhoods from index i on; a panic
\* ends it
RECURSIVE OuterLoop(_, _, _, _, _)
OuterLoop(i, t, nbh, inp, ms) ==
    IF i >= MapLen(nbh) \/ t.panicked THEN {t}
    ELSE IF t.visited[i] \/ Len(nbh[i].neighbors) < ms
         THEN OuterLoop(i + 1, t, nbh, inp, ms)
         ELSE UNION {OuterLoop(i + 1, t2, nbh, inp, ms) :
                        t2 \in process(i, t, nbh, inp, ms)}

\* the fields a fit call on a non-empty input can leave in the object, with its
\* result
FitOp(inp, tr, radius, ms) ==
    UNION {{[neighborhoods |-> nbh, ordered |-> t.ordered,
             reachability |-> t.reachability,
             result |-> IF t.panicked THEN PanicResult
                        ELSE extract_clusters_and_outliers(t.ordered, t.reachability,
                                                           nbh, ms, radius)] :
                t \in OuterLoop(0, FreshTraversal(inp), nbh, inp, ms)} :
              nbh \in {build_neighborhoods(inp, tr, radius)}}

-----------------------------------------------------------------------------
(* The object and its calls.                                               *)

\* Optics::new(eps, min_samples, metric), eps and min_samples out of the given sets
New(radii, counts) ==
    /\ eps \in radii
    /\ min_samples \in counts
    /\ ordered = <<>>
    /\ reachability = <<>>
    /\ neighborhoods = <<>>
    /\ input = <<>>
    /\ tree = <<>>
    /\ visited = <<>>
    /\ to_visit = <<>>
    /\ seeds = <<>>
    /\ idx = 0
    /\ pc = "idle"
    /\ result = EmptyResult
    /\ op = "new"
    /\ exEps = NaN
    /\ lastFit = EmptyResult
    /\ nfits = 0
    /\ refit = FALSE
    /\ cand = <<>>
    /\ starts = <<>>
    /\ updated = <<>>
    /\ expansion = <<>>
    /\ prev = [ordered |-> <<>>, reachability |-> <<>>, neighborhoods |-> <<>>,
               result |-> EmptyResult]

\* a new object with any build radius and any min_samples of the bounds
Init == New(EpsSet, 1..MaxMinSamples)

\* a new object with the build radius and the min_samples of SpecSeeds
InitSeeds == New({2 * SeedsEps + 1}, 1..SeedsMaxMinSamples)

\* FitEmpty returning the extraction of the fields as they stand
FitEmptyExtracts ==
    /\ result' = extract_clusters_and_outliers(ordered, reachability, neighborhoods,
                                               min_samples, eps)
    /\ lastFit' = result'
    /\ pc' = "idle"
    /\ UNCHANGED <<ordered, reachability, neighborhoods, visited, to_visit, seeds, idx,
                   cand, starts, updated, expansion>>

\* fit, lines 135-137: an empty input returns at once
FitEmpty ==
    /\ result' = EmptyResult
    /\ lastFit' = EmptyResult
    /\ pc' = "idle"
    /\ UNCHANGED <<ordered, reachability, neighborhoods, visited, to_visit, seeds, idx,
                   cand, starts, updated, expansion>>

\* fit, lines 139-148: the neighborhoods are built, the traversal state is reset
FitReset(inp, tr) ==
    /\ neighborhoods' = build_neighborhoods(inp, tr, eps)
    /\ visited' = FreshTraversal(inp).visited
    /\ ordered' = FreshTraversal(inp).ordered
    /\ reachability' = FreshTraversal(inp).reachability
    /\ idx' = 0
    /\ pc' = "outer"
    /\ cand' = [p \in DOMAIN inp |-> NaN]
    /\ starts' = <<>>
    /\ updated' = [p \in DOMAIN inp |-> 0]
    /\ expansion' = [p \in DOMAIN inp |-> 0]
    /\ result' = EmptyResult
    /\ UNCHANGED <<lastFit, to_visit, seeds>>

\* fit(input, None) is called; the index over input lists the points in order tr
Fit(inp, tr, maxfits) ==
    /\ pc = "idle"
    /\ nfits < maxfits
    /\ nfits' = nfits + 1
    /\ input' = inp
    /\ tree' = tr
    /\ refit' = (nfits >= 1 /\ inp = input /\ tr = tree)
    /\ op' = "fit"
    /\ exEps' = NaN
    /\ IF NRows(inp) = 0 THEN FitEmpty ELSE FitReset(inp, tr)
    /\ prev' = [ordered |-> ordered, reachability |-> reachability,
                neighborhoods |-> neighborhoods, result |-> lastFit]
    /\ UNCHANGED <<eps, min_samples>>

\* fit, lines 139-164, as one step: the fields and the result FitOp computes
FitWhole(inp, tr) ==
    \E f \in FitOp(inp, tr, eps, min_samples) :
        /\ neighborhoods' = f.neighborhoods
        /\ ordered' = f.ordered
        /\ reachability' = f.reachability
        /\ result' = f.result
        /\ lastFit' = f.result
        /\ pc' = "idle"
        /\ UNCHANGED <<visited, to_visit, seeds, idx, cand, starts, updated, expansion>>

\* fit(input, None) from call to return
FitCall(inp, tr, maxfits) ==
    /\ pc = "idle"
    /\ nfits < maxfits
    /\ nfits' = nfits + 1
    /\ input' = inp
    /\ tree' = tr
    /\ refit' = (nfits >= 1 /\ inp = input /\ tr = tree)
    /\ op' = "fit"
    /\ exEps' = NaN
    /\ IF NRows(inp) = 0 THEN FitEmpty ELSE FitWhole(inp, tr)
    /\ UNCHANGED <<eps, min_samples, prev>>

\* OuterStep starting an expansion at every unvisited index
OuterStepNoCoreTest ==
    /\ pc = "outer"
    /\ idx < MapLen(neighborhoods)
    /\ IF visited[idx]
       THEN /\ idx' = idx + 1
            /\ UNCHANGED <<to_visit, pc, starts>>
       ELSE /\ to_visit' = <<idx>>
            /\ pc' = "stack"
            /\ starts' = Append(starts, idx)
            /\ UNCHANGED idx
    /\ UNCHANGED <<eps, min_samples, ordered, reachability, neighborhoods, input, tree,
                   visited, seeds, result, op, exEps, lastFit, nfits, refit, cand,
                   updated, expansion, prev>>

\* fit, lines 149-163: one iteration of the loop over the neighborhoods
OuterStep ==
    /\ pc = "outer"
    /\ idx < MapLen(neighborhoods)
    /\ IF visited[idx] \/ Len(neighborhoods[idx].neighbors) < min_samples
       THEN /\ idx' = idx + 1
            /\ UNCHANGED <<to_visit, pc, starts>>
       ELSE /\ to_visit' = <<idx>>
            /\ pc' = "stack"
            /\ starts' = Append(starts, idx)
            /\ UNCHANGED idx
    /\ UNCHANGED <<eps, min_samples, ordered, reachability, neighborhoods, input, tree,
                   visited, seeds, result, op, exEps, lastFit, nfits, refit, cand,
                   updated, expansion, prev>>

\* FitReturn extracting at a threshold below self.eps
FitReturnNarrow ==
    /\ pc = "outer"
    /\ idx = MapLen(neighborhoods)
    /\ result' = extract_clusters_and_outliers(ordered, reachability, neighborhoods,
                                               min_samples, eps - 2)
    /\ lastFit' = result'
    /\ pc' = "idle"
    /\ idx' = 0
    /\ visited' = <<>>
    /\ UNCHANGED <<eps, min_samples, ordered, reachability, neighborhoods, input, tree,
                   to_visit, seeds, op, exEps, nfits, refit, cand, starts, updated,
                   expansion, prev>>

\* fit, line 164: the loop is over, fit returns the extraction at self.eps
FitReturn ==
    /\ pc = "outer"
    /\ idx = MapLen(neighborhoods)
    /\ result' = extract_clusters_and_outliers(ordered, reachability, neighborhoods,
                                               min_samples, eps)
    /\ lastFit' = result'
    /\ pc' = "idle"
    /\ idx' = 0
    /\ visited' = <<>>
    /\ UNCHANGED <<eps, min_samples, ordered, reachability, neighborhoods, input, tree,
                   to_visit, seeds, op, exEps, nfits, refit, cand, starts, updated,
                   expansion, prev>>

\* lines 185-202 and 204-221: the popped index cur is visited and, if core, updated;
\* the loop goes on at `next`, unless the sort panicked and fit unwinds
Visit(cur, sds, next) ==
    \E t \in VisitOp([visited |-> visited, ordered |-> ordered,
                       reachability |-> reachability, seeds |-> sds,
                       panicked |-> FALSE],
                      cur, neighborhoods, input, min_samples) :
        /\ pc' = IF t.panicked THEN "idle" ELSE next
        /\ result' = IF t.panicked THEN PanicResult ELSE result
        /\ lastFit' = IF t.panicked THEN PanicResult ELSE lastFit
        /\ visited' = t.visited
        /\ ordered' = t.ordered
        /\ reachability' = t.reachability
        /\ seeds' = t.seeds
        /\ cand' = IF ~visited[cur] /\ Len(neighborhoods[cur].neighbors) >= min_samples
                   THEN CandAfter(cand, cur, neighborhoods[cur], input, t.visited)
                   ELSE cand
        /\ updated' = IF ~visited[cur] /\ Len(neighborhoods[cur].neighbors) >= min_samples
                      THEN [updated EXCEPT ![cur] = @ + 1]
                      ELSE updated
        /\ expansion' = IF ~visited[cur]
                        THEN [expansion EXCEPT ![cur] = Len(starts)]
                        ELSE expansion

\* process, lines 184-202: one iteration of the loop over the candidate stack
ProcessPop ==
    /\ pc = "stack"
    /\ IF to_visit = <<>>
       THEN /\ pc' = "outer"
            /\ idx' = idx + 1
            /\ UNCHANGED <<to_visit, seeds, visited, ordered, reachability, cand,
                           updated, expansion, result, lastFit>>
       ELSE LET cur == to_visit[Len(to_visit)]
            IN  /\ to_visit' = SubSeq(to_visit, 1, Len(to_visit) - 1)
                /\ Visit(cur, <<>>,
                         IF ~visited[cur] /\ Len(neighborhoods[cur].neighbors) >= min_samples
                         THEN "seeds" ELSE "stack")
                /\ UNCHANGED idx
    /\ UNCHANGED <<eps, min_samples, neighborhoods, input, tree, op, exEps, nfits, refit,
                   starts, prev>>

\* SeedPop reading the last seed without removing it from the buffer
SeedPopPeeks ==
    /\ pc = "seeds"
    /\ IF seeds = <<>>
       THEN /\ pc' = "stack"
            /\ UNCHANGED <<seeds, visited, ordered, reachability, cand, updated,
                           expansion, result, lastFit>>
       ELSE LET s == seeds[Len(seeds)]
            IN  Visit(s, seeds, "seeds")
    /\ UNCHANGED <<eps, min_samples, neighborhoods, input, tree, to_visit, idx, op,
                   exEps, nfits, refit, starts, prev>>

\* process, lines 203-222: one iteration of the loop over the seed buffer
SeedPop ==
    /\ pc = "seeds"
    /\ IF seeds = <<>>
       THEN /\ pc' = "stack"
            /\ UNCHANGED <<seeds, visited, ordered, reachability, cand, updated,
                           expansion, result, lastFit>>
       ELSE LET s == seeds[Len(seeds)]
            IN  Visit(s, SubSeq(seeds, 1, Len(seeds) - 1), "seeds")
    /\ UNCHANGED <<eps, min_samples, neighborhoods, input, tree, to_visit, idx, op,
                   exEps, nfits, refit, starts, prev>>

\* Extract draining self.ordered while it classifies
ExtractDrains(e) ==
    /\ pc = "idle"
    /\ e <= eps + 1
    /\ result' = extract_clusters_and_outliers(ordered, reachability, neighborhoods,
                                               min_samples, e)
    /\ ordered' = <<>>
    /\ op' = "extract"
    /\ exEps' = e
    /\ UNCHANGED <<eps, min_samples, reachability, neighborhoods, input, tree,
                   visited, to_visit, seeds, idx, pc, lastFit, nfits, refit, cand, starts,
                   updated, expansion, prev>>

\* extract_clusters_and_outliers(e) is called, e at most one above the build radius
Extract(e) ==
    /\ pc = "idle"
    /\ e <= eps + 1
    /\ result' = extract_clusters_and_outliers(ordered, reachability, neighborhoods,
                                               min_samples, e)
    /\ op' = "extract"
    /\ exEps' = e
    /\ UNCHANGED <<eps, min_samples, ordered, reachability, neighborhoods, input, tree,
                   visited, to_visit, seeds, idx, pc, lastFit, nfits, refit, cand, starts,
                   updated, expansion, prev>>

\* one object, one fit call, any number of extractions
Next ==
    \/ /\ pc = "idle"
       /\ nfits < 1
       /\ \E inp \in PointSets(MaxN, MaxCoord) :
            \E tr \in TreeOrders(NRows(inp)) :
                Fit(inp, tr, 1)
    \/ OuterStep
    \/ FitReturn
    \/ ProcessPop
    \/ SeedPop
    \/ \E e \in Thresholds : Extract(e)

Spec == Init /\ [][Next]_vars

\* fit runs on the caller's thread without suspending: a loop iteration that can
\* be taken is taken
Fairness ==
    /\ WF_vars(OuterStep)
    /\ WF_vars(FitReturn)
    /\ WF_vars(ProcessPop)
    /\ WF_vars(SeedPop)

\* one object and one fit call, from the call to its return
NextLive ==
    \/ /\ pc = "idle"
       /\ nfits < 1
       /\ \E inp \in PointSets(LiveMaxN, LiveMaxCoord) :
            \E tr \in TreeOrders(NRows(inp)) :
                Fit(inp, tr, 1)
    \/ OuterStep
    \/ FitReturn
    \/ ProcessPop
    \/ SeedPop

SpecLive == Init /\ [][NextLive]_vars /\ Fairness

\* one object, a sequence of whole fit calls, with extractions at the configured
\* radius between them
NextSeq ==
    \/ /\ pc = "idle"
       /\ nfits < MaxFits
       /\ \E inp \in PointSets(SeqMaxN, SeqMaxCoord) :
            \E tr \in TreeOrders(NRows(inp)) :
                FitCall(inp, tr, MaxFits)
    \/ Extract(eps)

SpecSeq == Init /\ [][NextSeq]_vars

\* one object and fit calls that run step by step: the first on any input, each
\* later one on the input of the call before it
NextRefit ==
    \/ /\ pc = "idle"
       /\ nfits < MaxFits
       /\ \E inp \in PointSets(RefitMaxN, RefitMaxCoord) :
            \E tr \in TreeOrders(NRows(inp)) :
                /\ nfits = 0 \/ (inp = input /\ tr = tree)
                /\ Fit(inp, tr, MaxFits)
    \/ OuterStep
    \/ FitReturn
    \/ ProcessPop
    \/ SeedPop

SpecRefit == Init /\ [][NextRefit]_vars

\* one object and one fit call on up to SeedsMaxN points, from the call to its return
NextSeeds ==
    \/ /\ pc = "idle"
       /\ nfits < 1
       /\ \E inp \in PointSets(SeedsMaxN, SeedsMaxCoord) :
            \E tr \in TreeOrders(NRows(inp)) :
                Fit(inp, tr, 1)
    \/ OuterStep
    \/ FitReturn
    \/ ProcessPop
    \/ SeedPop

SpecSeeds == InitSeeds /\ [][NextSeeds]_vars

-----------------------------------------------------------------------------
(* Vocabulary of the properties.                                           *)

\* the elements of a sequence
Range(s) == {s[k] : k \in 1..Len(s)}

\* the extraction of the object's current state at threshold e
ExtractAt(e) ==
    extract_clusters_and_outliers(ordered, reachability, neighborhoods, min_samples, e)

\* the points that are members of some cluster of an extraction result
Members(res) == UNION {Range(res.clusters[k]) : k \in DOMAIN res.clusters}

\* how often point i occurs in the member lists of an extraction result
ClusterOcc(res, i) ==
    Cardinality({kp \in UNION {{<<k, q>> : q \in 1..Len(res.clusters[k])} :
                               k \in DOMAIN res.clusters} :
                    res.clusters[kp[1]][kp[2]] = i})

\* how often point i occurs in the outlier list of an extraction result
OutlierOcc(res, i) == Cardinality({q \in 1..Len(res.outliers) : res.outliers[q] = i})

\* the position of point i in `ordered` (0 when it is not there)
PosInOrder(i) ==
    IF i \in Range(ordered) THEN CHOOSE k \in 1..Len(ordered) : ordered[k] = i ELSE 0

\* the step-wise traversal ends in a state the fit function computes
StepsAgreeWithFitOp ==
    (pc = "idle" /\ op = "fit" /\ NRows(input) > 0) =>
        \E f \in FitOp(input, tree, eps, min_samples) :
            /\ neighborhoods = f.neighborhoods
            /\ ordered = f.ordered
            /\ reachability = f.reachability
            /\ lastFit = f.result

\* the threshold of the extraction that produced `result`
LastThreshold == IF op = "extract" THEN exEps ELSE eps

-----------------------------------------------------------------------------
(* C1. Partition: whatever the threshold, the result of an extraction      *)
(* places each index of `ordered` exactly once, either in one cluster's    *)
(* member list or in the outlier list, and places no other index.          *)
C1_Partition ==
    pc = "idle" =>
        /\ ~result.panicked
        /\ \A i \in Range(ordered) : ClusterOcc(result, i) + OutlierOcc(result, i) = 1
        /\ Members(result) \cup Range(result.outliers) \subseteq Range(ordered)

\* an extraction that returned a cluster of two points and an outlier
C1_Witness ==
    /\ pc = "idle"
    /\ op = "extract"
    /\ result.outliers # <<>>
    /\ \E k \in DOMAIN result.clusters : Len(result.clusters[k]) >= 2

(* C2. Monotonic relaxation: for thresholds e1 <= e2 <= eps, every cluster *)
(* member of the extraction at e1 is a cluster member of the extraction    *)
(* at e2.                                                                  *)
C2_MonotonicRelaxation ==
    (pc = "idle" /\ op = "extract" /\ exEps <= eps) =>
        \A e1 \in 0..exEps : Members(ExtractAt(e1)) \subseteq Members(result)

\* an extraction below eps returned more members than the non-empty set of members
\* a smaller threshold gives
C2_Witness ==
    /\ pc = "idle"
    /\ op = "extract"
    /\ exEps <= eps
    /\ \E e1 \in 0..exEps :
         /\ Members(ExtractAt(e1)) # {}
         /\ Members(ExtractAt(e1)) # Members(result)

(* C3. After fit on n points, every index in 0..n-1 that is in no returned *)
(* cluster is in the returned outlier list.                                *)
C3_FitCoversInput ==
    (pc = "idle" /\ op = "fit" /\ NRows(input) > 0) =>
        \A i \in DOMAIN input : i \in Members(lastFit) \/ i \in Range(lastFit.outliers)

(* C4. An extraction at the configured eps returns what the most recent    *)
(* fit call returned, whatever fit calls came before, fit calls on an      *)
(* empty point set included.                                               *)
C4_ExtractFollowsLastFit ==
    (pc = "idle" /\ op = "extract" /\ exEps = eps) => result = lastFit

(* C5. A fit call on zero points returns an empty cluster map and an empty *)
(* outlier list at once and leaves the neighborhoods, the order and the    *)
(* reachability as they were: nothing is built, traversed or extracted.    *)
C5_EmptyFit ==
    [][(nfits' = nfits + 1 /\ NRows(input') = 0) =>
          /\ pc' = "idle"
          /\ result' = EmptyResult
          /\ lastFit' = EmptyResult
          /\ neighborhoods' = neighborhoods
          /\ ordered' = ordered
          /\ reachability' = reachability]_vars

\* a fit call on zero points has returned on an object that a fit had filled
C5_Witness ==
    /\ op = "fit"
    /\ NRows(input) = 0
    /\ nfits >= 2
    /\ Len(ordered) >= 2
    /\ lastFit = EmptyResult

(* C6. Determinism: when a fit call on the input (and index order) of the  *)
(* fit call before it returns, `ordered`, `reachability` and               *)
(* `neighborhoods` are what that call had left and the clusters and        *)
(* outliers returned are the ones it had returned: the traversal of the    *)
(* second call, which starts from the fields the first call left, ends     *)
(* where the first one ended.                                              *)
C6_Determinism ==
    (pc = "idle" /\ op = "fit" /\ refit) =>
        /\ ordered = prev.ordered
        /\ reachability = prev.reachability
        /\ neighborhoods = prev.neighborhoods
        /\ lastFit = prev.result
        /\ result = prev.result

\* the second of two fit calls on the same three points has returned; in both,
\* the start pushed two seeds in the order of increasing reachability and the
\* sort turned them round, so the nearer one was visited first
C6_Witness ==
    /\ pc = "idle"
    /\ op = "fit"
    /\ refit
    /\ nfits = 2
    /\ NRows(input) = 3
    /\ Len(ordered) = 3
    /\ Len(starts) = 1
    /\ Lt(reachability[ordered[2]], reachability[ordered[3]])
    /\ \E a, b \in 1..Len(neighborhoods[ordered[1]].neighbors) :
         /\ a < b
         /\ neighborhoods[ordered[1]].neighbors[a] = ordered[2]
         /\ neighborhoods[ordered[1]].neighbors[b] = ordered[3]
    /\ lastFit.clusters # <<>>

\* the points [0, 2, 3, 4, 6, 8, 10] of the test core_samples, in half units
ExampleB == [p \in 0..6 |-> <<0, 4, 6, 8, 12, 16, 20>>[p + 1]]

\* fit of ExampleB with eps = 1.01 (between 2 and 4 half units) and min_samples = 1
\* returns {0: [0], 1: [1, 2, 3], 2: [4], 3: [5], 4: [6]} and no outliers
ExampleBResult ==
    \A tr \in TreeOrders(7) :
        {f.result : f \in FitOp(ExampleB, tr, 3, 1)} =
            {[clusters |-> [k \in 0..4 |-> <<<<0>>, <<1, 2, 3>>, <<4>>, <<5>>, <<6>>>>[k + 1]],
              outliers |-> <<>>, panicked |-> FALSE]}

(* C7. With min_samples = 1 fit on a non-empty input returns no outliers   *)
(* and every index 0..n-1 is a member of exactly one cluster; the points   *)
(* [0,2,3,4,6,8,10] with eps = 1.01 give the five clusters                 *)
(* {0:[0], 1:[1,2,3], 2:[4], 3:[5], 4:[6]}.                                *)
C7_AllCoreAtOne ==
    /\ ExampleBResult
    /\ (pc = "idle" /\ op = "fit" /\ min_samples = 1 /\ NRows(input) > 0) =>
          /\ ~lastFit.panicked
          /\ lastFit.outliers = <<>>
          /\ \A i \in DOMAIN input : ClusterOcc(lastFit, i) = 1

\* fit with min_samples = 1 on three points returned a cluster of two and another
C7_Witness ==
    /\ pc = "idle"
    /\ op = "fit"
    /\ min_samples = 1
    /\ NRows(input) = 3
    /\ MapLen(lastFit.clusters) = 2
    /\ \E k \in DOMAIN lastFit.clusters : Len(lastFit.clusters[k]) = 2

(* C8. Cluster ids are sequential: the keys of an extraction result with k *)
(* clusters are 0..k-1; each member list is in visiting order, begins with *)
(* the point that opened the cluster and continues with points reached at  *)
(* the threshold; the members of cluster j come before those of cluster    *)
(* j+1 in `ordered`.                                                       *)
C8_SequentialIds ==
    pc = "idle" =>
        LET k == MapLen(result.clusters)
        IN  /\ ~result.panicked
            /\ DOMAIN result.clusters = 0..(k - 1)
            /\ \A j \in DOMAIN result.clusters :
                 LET m == result.clusters[j]
                 IN  /\ Len(m) >= 1
                     /\ ~Reached(reachability[m[1]], LastThreshold)
                     /\ \A a \in 2..Len(m) : Reached(reachability[m[a]], LastThreshold)
                     /\ \A a \in 1..Len(m) : PosInOrder(m[a]) >= 1
                     /\ \A a, b \in 1..Len(m) :
                          a < b => PosInOrder(m[a]) < PosInOrder(m[b])
                     /\ (j + 1) \in DOMAIN result.clusters =>
                          PosInOrder(m[Len(m)]) < PosInOrder(result.clusters[j + 1][1])

\* an extraction returned two clusters, the first of two or more members
C8_Witness ==
    /\ pc = "idle"
    /\ op = "extract"
    /\ MapLen(result.clusters) >= 2
    /\ 0 \in DOMAIN result.clusters
    /\ Len(result.clusters[0]) >= 2

(* C9. Core distance: it is 0 for a point whose neighbor list has fewer    *)
(* than 2 entries and the distance to the nearest other point otherwise,   *)
(* under every min_samples and after extractions at any threshold.         *)
C9_CoreDistance ==
    /\ DOMAIN neighborhoods = DOMAIN input
    /\ \A p \in DOMAIN neighborhoods :
         LET n == neighborhoods[p]
             others == {Distance(input, p, q) : q \in DOMAIN input \ {p}}
         IN  IF Len(n.neighbors) < 2 THEN n.core_distance = 0
             ELSE /\ n.core_distance \in others
                  /\ \A d \in others : n.core_distance <= d

\* after an extraction below eps, with min_samples = 1: a point with a positive
\* core distance and a point with no neighbor but itself
C9_Witness ==
    /\ op = "extract"
    /\ exEps < eps
    /\ min_samples = 1
    /\ \E p, q \in DOMAIN neighborhoods :
         /\ neighborhoods[p].core_distance > 0
         /\ Len(neighborhoods[q].neighbors) < 2

(* C10. Smallest reachability: a defined reachability is the smallest      *)
(* candidate update has computed for the point so far in this fit.         *)
C10_SmallestCandidate ==
    \A o \in DOMAIN reachability :
        (o \in DOMAIN cand /\ is_normal(cand[o]) /\ is_normal(reachability[o])) =>
            reachability[o] = cand[o]

-----------------------------------------------------------------------------
(* The classification rule of the forward pass, stated position by         *)
(* position over `ordered`.                                                *)

\* the reachability of the point at position k is defined and at most e
WithinAt(k, e) ==
    LET r == reachability[ordered[k]]
    IN  r # NaN /\ r # 0 /\ r <= e

\* the point at position k is a core point at e
CoreAt(k, e) ==
    LET n == neighborhoods[ordered[k]]
    IN  ~(Len(n.neighbors) < min_samples \/ n.core_distance > e)

\* the number of clusters the rule has opened before position k
OpenedBefore(k, e) ==
    Cardinality({j \in 1..(k - 1) : ~WithinAt(j, e) /\ CoreAt(j, e)})

\* the rule classifies the point at position k as an outlier
RuleOutlier(k, e) ==
    \/ WithinAt(k, e) /\ OpenedBefore(k, e) = 0
    \/ ~WithinAt(k, e) /\ ~CoreAt(k, e)

(* C11. Classification rule of the extraction at threshold e: a point is   *)
(* an outlier iff its reachability is defined and <= e with no cluster     *)
(* opened yet, or its reachability is undefined or > e and it is not a     *)
(* core point at e; a point with reachability undefined or > e that is a   *)
(* core point at e opens the next cluster; a point with defined            *)
(* reachability <= e after some cluster was opened joins the cluster       *)
(* opened last.                                                            *)
C11_ClassificationRule ==
    pc = "idle" =>
        LET e == LastThreshold
        IN  /\ Range(result.outliers) =
                   {ordered[k] : k \in {j \in 1..Len(ordered) : RuleOutlier(j, e)}}
            /\ \A k \in 1..Len(ordered) :
                 LET n == OpenedBefore(k, e)
                 IN  /\ (~WithinAt(k, e) /\ CoreAt(k, e)) =>
                          /\ n \in DOMAIN result.clusters
                          /\ result.clusters[n][1] = ordered[k]
                     /\ (WithinAt(k, e) /\ n > 0) =>
                          /\ (n - 1) \in DOMAIN result.clusters
                          /\ \E a \in 2..Len(result.clusters[n - 1]) :
                               result.clusters[n - 1][a] = ordered[k]

\* an extraction below eps in which one point opened a cluster, one joined it and
\* one, with a defined reachability above the threshold, became an outlier
C11_Witness ==
    /\ pc = "idle"
    /\ op = "extract"
    /\ exEps < eps
    /\ \E k \in DOMAIN result.clusters : Len(result.clusters[k]) >= 2
    /\ \E q \in 1..Len(result.outliers) :
         /\ is_normal(reachability[result.outliers[q]])
         /\ reachability[result.outliers[q]] > exEps

(* C12. Seed-buffer priority: whenever an entry is about to be popped from *)
(* the seed buffer, its reachability is less than or equal to that of      *)
(* every other entry in the buffer, also after reachabilities were         *)
(* overwritten and after pops that did not sort the buffer again.          *)
C12_SeedPriority ==
    (pc = "seeds" /\ seeds # <<>>) =>
        \A k \in 1..Len(seeds) :
            Le(reachability[seeds[Len(seeds)]], reachability[seeds[k]])

\* the value update gave point x from the start of the one expansion so far
FromStart(x) == reachability_distance(x, starts[1], input, neighborhoods[starts[1]])

\* the seed buffer holds two different unvisited indices, and one of them, pushed
\* from the start with a reachability, has had it overwritten (line 247) while
\* it was in the buffer; so in fit of [[1.], [0.], [0.], [2.]] with eps 2.5 and
\* min_samples 2, once row 3 is popped and updates rows 1 and 2 from 1.0 to 2.0
SeedOverwritten ==
    /\ pc = "seeds"
    /\ Len(starts) = 1
    /\ \E a, b \in 1..Len(seeds) :
         /\ seeds[a] # seeds[b]
         /\ ~visited[seeds[a]]
         /\ ~visited[seeds[b]]
         /\ \E k \in 1..Len(neighborhoods[starts[1]].neighbors) :
               neighborhoods[starts[1]].neighbors[k] = seeds[a]
         /\ is_normal(FromStart(seeds[a]))
         /\ Gt(reachability[seeds[a]], FromStart(seeds[a]))

\* the pop before this state took a point that is not a core point, so the buffer
\* was not sorted again, and it still holds two unvisited indices of different
\* reachability; so in fit of [[1.], [0.], [0.], [3.]] with eps 2.5 and
\* min_samples 4, once row 2 is popped, which leaves rows 1 and 3
NonCorePopped ==
    /\ pc = "seeds"
    /\ ordered # <<>>
    /\ ordered[Len(ordered)] \notin Range(starts)
    /\ Len(neighborhoods[ordered[Len(ordered)]].neighbors) < min_samples
    /\ \E a, b \in 1..Len(seeds) :
         /\ seeds[a] # seeds[b]
         /\ ~visited[seeds[a]]
         /\ ~visited[seeds[b]]
         /\ reachability[seeds[a]] # reachability[seeds[b]]

\* a pop is due on a buffer of two different indices after an overwrite
C12_Witness == SeedOverwritten

\* a pop is due on a buffer of two different indices after a pop that did not sort
C12_WitnessNonCore == NonCorePopped

(* C13. Single visit: during the traversal `ordered` holds no index twice, *)
(* visited[i] is true exactly for the indices in `ordered` (so `ordered`   *)
(* is no longer than the input), and update has run at most once per       *)
(* index, also when an index is in the seed buffer several times.          *)
C13_SingleVisit ==
    pc \in {"outer", "stack", "seeds"} =>
        /\ \A a, b \in 1..Len(ordered) : a # b => ordered[a] # ordered[b]
        /\ \A i \in DOMAIN input : visited[i] <=> i \in Range(ordered)
        /\ Len(ordered) <= NRows(input)
        /\ \A i \in DOMAIN input : updated[i] <= 1
        /\ \A i \in DOMAIN input : updated[i] = 1 => visited[i]

\* the index about to be popped from the seed buffer was pushed twice: its other
\* entry was popped before, so it is visited and update has run for it
C13_Witness ==
    /\ pc = "seeds"
    /\ seeds # <<>>
    /\ visited[seeds[Len(seeds)]]
    /\ updated[seeds[Len(seeds)]] = 1

(* C14. Termination: a fit call returns: each seed loop ends with an empty *)
(* seed buffer, each candidate-stack loop ends with an empty stack, and    *)
(* the loop over the indices ends with the result returned.                *)
C14_Termination ==
    /\ (pc = "seeds") ~> (pc = "stack" /\ seeds = <<>>)
    /\ (pc = "stack") ~> (pc = "outer" /\ to_visit = <<>>)
    /\ (pc = "outer") ~> (pc = "idle" /\ op = "fit")

\* a fit on three points has returned after two expansions, one of which drained a
\* seed buffer
C14_Witness ==
    /\ pc = "idle"
    /\ op = "fit"
    /\ NRows(input) = 3
    /\ Len(starts) = 2
    /\ Len(ordered) = 3

\* between two expansions: both buffers are empty and every point that was given
\* a reachability or a candidate is visited; a start index never has either
Drained ==
    /\ pc = "outer" =>
          /\ seeds = <<>>
          /\ to_visit = <<>>
          /\ \A o \in DOMAIN input :
               (reachability[o] # NaN \/ cand[o] # NaN) => visited[o]
    /\ \A k \in 1..Len(starts) :
          /\ reachability[starts[k]] = NaN
          /\ cand[starts[k]] = NaN

\* a step leaves the reachability of the visited points as it is
VisitedKeepReachability ==
    \A o \in DOMAIN visited :
        visited[o] => (o \in DOMAIN reachability' /\ reachability'[o] = reachability[o])

(* C15. Drain-before-advance: when fit's loop selects a start index, the   *)
(* seed buffers of the earlier expansions are drained and every index that *)
(* was given a reachability is visited; a start index has an undefined     *)
(* reachability when selected and keeps it to the end of fit; the          *)
(* reachability of a visited point is not modified.                        *)
C15_DrainBeforeAdvance == []Drained /\ [][VisitedKeepReachability]_vars

\* the second start index has just been selected, after an expansion that gave a
\* point a reachability
C15_Witness ==
    /\ pc = "stack"
    /\ to_visit # <<>>
    /\ Len(starts) = 2
    /\ \E o \in DOMAIN input : visited[o] /\ is_normal(reachability[o])

\* a step that is a call of extract_clusters_and_outliers leaves the object as it
\* is and returns the extraction of that object at the threshold of the call
ExtractStepReadsOnly ==
    (pc = "idle" /\ pc' = "idle" /\ op' = "extract") =>
        /\ ordered' = ordered
        /\ reachability' = reachability
        /\ neighborhoods' = neighborhoods
        /\ eps' = eps
        /\ min_samples' = min_samples
        /\ result' = ExtractAt(exEps')

(* C17. Extraction is read-only: extract_clusters_and_outliers leaves the  *)
(* order, the reachability, the neighborhoods and the configuration        *)
(* unchanged, so after a fit every extraction of a sequence of             *)
(* extractions returns what a single extraction at its threshold right     *)
(* after the fit returns; at the configured eps that is fit's own result.  *)
C17_ExtractReadOnly ==
    /\ [][ExtractStepReadsOnly]_vars
    /\ []((pc = "idle" /\ op = "extract") =>
             /\ result = ExtractAt(exEps)
             /\ exEps = eps => result = lastFit)

\* an extraction below eps has returned clusters and outliers other than fit's
C17_Witness ==
    /\ pc = "idle"
    /\ op = "extract"
    /\ exEps < eps
    /\ result # lastFit
    /\ result.clusters # <<>>
    /\ result.outliers # <<>>
    /\ lastFit.clusters # <<>>

\* point i has at least min_samples neighbors
HasMinSamples(i) == Len(neighborhoods[i].neighbors) >= min_samples

\* point i is in the neighbor list of point p
ListedBy(i, p) == i \in Range(neighborhoods[p].neighbors)

(* C18. The visited set: after fit on a non-empty input an index is in     *)
(* `ordered` if and only if its neighbor list has at least min_samples     *)
(* entries or it is in the neighbor list of a point whose neighbor list    *)
(* has; every other index is in no cluster and not in the outlier list of  *)
(* the result of fit or of a later extraction.                             *)
C18_VisitedSet ==
    (pc = "idle" /\ op \in {"fit", "extract"} /\ NRows(input) > 0) =>
        \A i \in DOMAIN input :
            /\ i \in Range(ordered) <=>
                   \/ HasMinSamples(i)
                   \/ \E p \in DOMAIN input : HasMinSamples(p) /\ ListedBy(i, p)
            /\ i \notin Range(ordered) =>
                   /\ i \notin Members(result) \cup Range(result.outliers)
                   /\ i \notin Members(lastFit) \cup Range(lastFit.outliers)

\* fit has returned, leaving out a point that another point, itself with fewer
\* than min_samples neighbors, lists as a neighbor
C18_Witness ==
    /\ pc = "idle"
    /\ op = "fit"
    /\ \E i, p \in DOMAIN input :
         /\ i # p
         /\ i \notin Range(ordered)
         /\ ListedBy(i, p)

(* C19. No outlier has a defined reachability within the threshold: at     *)
(* every threshold, when the forward pass meets a point whose reachability *)
(* is defined and <= the threshold, a cluster has been opened before it;   *)
(* so every outlier of a result has a reachability that is undefined or    *)
(* above the threshold of the extraction.                                  *)
C19_NoReachedOutlier ==
    pc = "idle" =>
        /\ \A e \in Thresholds : \A k \in 1..Len(ordered) :
              WithinAt(k, e) => OpenedBefore(k, e) > 0
        /\ \A q \in 1..Len(result.outliers) :
              ~Reached(reachability[result.outliers[q]], LastThreshold)

\* an extraction below eps made the first visited point an outlier, and a point
\* visited later opened a cluster that a reached point joined
C19_Witness ==
    /\ pc = "idle"
    /\ op = "extract"
    /\ exEps < eps
    /\ result.outliers # <<>>
    /\ result.outliers[1] = ordered[1]
    /\ \E k \in DOMAIN result.clusters : Len(result.clusters[k]) >= 2

\* no two distinct rows of the input are at distance zero
NoCoincident(inp) ==
    \A o, p \in DOMAIN inp : o # p => Distance(inp, o, p) # 0

\* the points visited during the j-th expansion, in visiting order
VisitedIn(j) == SelectSeq(ordered, LAMBDA p : expansion[p] = j)

(* C20. One cluster per expansion at the build radius: when no two         *)
(* distinct points are at distance zero, the result of fit has no outliers *)
(* and as many clusters as fit's loop started expansions; cluster j holds  *)
(* exactly the points visited during the j-th expansion, in visiting       *)
(* order, the start index of that expansion first.                         *)
C20_ClusterPerExpansion ==
    (pc = "idle" /\ op = "fit" /\ NRows(input) > 0 /\ NoCoincident(input)) =>
        /\ ~lastFit.panicked
        /\ lastFit.outliers = <<>>
        /\ DOMAIN lastFit.clusters = 0..(Len(starts) - 1)
        /\ \A j \in 1..Len(starts) :
              /\ lastFit.clusters[j - 1] = VisitedIn(j)
              /\ lastFit.clusters[j - 1][1] = starts[j]

\* fit on three distinct points has returned after two expansions, one of which
\* visited two points
C20_Witness ==
    /\ pc = "idle"
    /\ op = "fit"
    /\ NRows(input) = 3
    /\ NoCoincident(input)
    /\ Len(starts) = 2
    /\ \E j \in 1..2 : Len(VisitedIn(j)) = 2

====
